---- MODULE Spec2Model ----
(***************************************************************************)
(* Model of API-Sentinel-X.py: the APISentinel object, its run() loop, the *)
(* discovery and scan engines, process_finding, generate_report and the    *)
(* __main__ block with its KeyboardInterrupt handler.                      *)
(*                                                                         *)
(* run() creates a ThreadPoolExecutor but never submits work to it, so the *)
(* whole scan is one thread of control; pc is its position.  A             *)
(* KeyboardInterrupt is delivered to that thread between two steps, and    *)
(* the handler that catches it is the innermost enclosing one at pc.       *)
(***************************************************************************)
EXTENDS Integers, Sequences, FiniteSets, TLC

\* ---------------------------------------------------------------- bounds
MaxTargets == 2
MaxPositives == 1
MaxInterrupts == 2
MaxCalls == 3
MaxWorkers == 2
MaxPerWorker == 2
MaxShownTargets == 10

\* ------------------------------------------------------------- constants
\* line 161: total_tests = len(targets) * 5
TestsPerTarget == 5

\* line 206: the default of --threads, the max_workers of line 163
threads == 5

\* line 92
common_paths == <<"/api", "/v1", "/graphql", "/rest", "/admin">>

\* Paths a scanned server may answer with a status below 400.
LivePaths == {"/api", "/v1"}

\* Test names are strings; they are kept as sequences of characters so that
\* Python's substring test ("SQLi" in vuln_name) is computed, not assumed.
NameBOLA == <<"B", "O", "L", "A">>
NameBFLA == <<"B", "F", "L", "A">>
NameMassAssignment ==
    <<"M", "a", "s", "s", " ", "A", "s", "s", "i", "g", "n", "m", "e", "n", "t">>
NameSQLi == <<"S", "Q", "L", "i">>

\* lines 119-124: the registry of scan_owasp_api, in registration order
tests == <<NameBOLA, NameBFLA, NameMassAssignment, NameSQLi>>

\* What a registered test function may do when called: return nothing
\* (the stubs of lines 137-151 do), return a truthy result, or raise.
TestResults == {"None", "evidence", "raise"}

\* What a discovery strategy may do when called: return a list of URLs,
\* return nothing (the stubs of lines 106-116 do), or raise.
Return(found) == [kind |-> "return", value |-> found]
ReturnsNone == [kind |-> "None", value |-> <<>>]
Raises == [kind |-> "raise", value |-> <<>>]
StubResults == {ReturnsNone, Raises}

Buckets == {"critical", "high", "medium", "low", "info"}

\* lines 45-51
EmptyFindings ==
    [critical |-> <<>>, high |-> <<>>, medium |-> <<>>, low |-> <<>>, info |-> <<>>]

VARIABLES
    targets,          \* self.targets
    total_tests,      \* self.total_tests
    completed_tests,  \* self.completed_tests
    findings,         \* self.findings
    pc,               \* position of the main thread
    idx,              \* position of "for target in self.targets"
    endpoints,        \* endpoints of the current target not yet iterated
    cur,              \* the loop variable "endpoint"
    results,          \* results of the current endpoint not yet iterated
    caller,           \* who called generate_report: "run" or "main"
    report_state,     \* the report file: "absent", "partial" or "complete"
    report_file,      \* what json.dump last wrote to the report file
    \* history variables
    status,           \* per target: its state in the orchestrator
    advanced,         \* per target: executions of line 172 on its behalf
    interrupts,       \* KeyboardInterrupts delivered so far
    doneAtIntr,       \* targets counted as completed at the first interrupt
    pfCalls,          \* calls of process_finding so far
    reportCalls,      \* calls of generate_report so far
    progress,         \* outcome of the last call of print_progress
    \* state of the calls made on the functions on their own
    probes,           \* what each probe of the call in progress does
    workers           \* the threads that call process_finding concurrently

vars == <<targets, total_tests, completed_tests, findings, pc, idx, endpoints,
          cur, results, caller, report_state, report_file, status, advanced,
          interrupts, doneAtIntr, pfCalls, reportCalls, progress, probes,
          workers>>

NoEndpoint == [base |-> 0, path |-> ""]

\* ------------------------------------------------------------ functions

\* Python's "sub in s" on strings.
Contains(sub, s) ==
    \E i \in 1..(Len(s) - Len(sub) + 1) : SubSeq(s, i, i + Len(sub) - 1) = sub

\* urljoin(target, path) for a target "scheme://host" and an absolute path:
\* the host of the target with the path replaced.
urljoin(target, path) == [base |-> target, path |-> path]

Range(s) == {s[i] : i \in 1..Len(s)}

Last(s) == s[Len(s)]

TotalFindings(f) ==
    Len(f.critical) + Len(f.high) + Len(f.medium) + Len(f.low) + Len(f.info)

\* lines 91-104: live is the set of paths whose GET answered with a status
\* below 400; a GET that answers 400 or more, or raises, adds nothing.
check_common_paths(target, live) ==
    LET hit(path) == path \in live
        urls == [i \in 1..Len(common_paths) |-> urljoin(target, common_paths[i])]
    IN  SelectSeq(urls, LAMBDA u : hit(u.path))

\* The loop over the strategies with the try around the whole loop: the first
\* strategy that raises ends discovery.
RECURSIVE discover_loop_abort(_, _, _)
discover_loop_abort(i, outs, eps) ==
    IF i > Len(outs) \/ outs[i].kind = "raise"
    THEN eps
    ELSE discover_loop_abort(i + 1, outs,
             IF outs[i].kind = "return" /\ outs[i].value # <<>>
             THEN eps \cup Range(outs[i].value)
             ELSE eps)

\* lines 80-89: the loop over the strategies; outs[i] is what strategy i did.
RECURSIVE discover_loop(_, _, _)
discover_loop(i, outs, eps) ==
    IF i > Len(outs)
    THEN eps
    ELSE discover_loop(i + 1, outs,
             IF outs[i].kind = "return" /\ outs[i].value # <<>>
             THEN eps \cup Range(outs[i].value)
             ELSE eps)

\* lines 72-89
discover_endpoints(outs) == discover_loop(1, outs, {})

\* The loop over the tests with the try around the whole loop: the first test
\* that raises ends the scan of the endpoint.
RECURSIVE scan_loop_abort(_, _, _)
scan_loop_abort(i, outcome, acc) ==
    IF i > Len(tests) \/ outcome[i] = "raise"
    THEN acc
    ELSE scan_loop_abort(i + 1, outcome,
             IF outcome[i] = "evidence"
             THEN Append(acc, <<tests[i], outcome[i]>>)
             ELSE acc)

\* lines 126-135: the loop over the tests; outcome[i] is what test i did.
RECURSIVE scan_loop(_, _, _)
scan_loop(i, outcome, acc) ==
    IF i > Len(tests)
    THEN acc
    ELSE scan_loop(i + 1, outcome,
             IF outcome[i] = "evidence"
             THEN Append(acc, <<tests[i], outcome[i]>>)
             ELSE acc)

\* lines 118-135
scan_owasp_api(outcome) == scan_loop(1, outcome, <<>>)

Positives(outcome) == Cardinality({i \in 1..Len(tests) : outcome[i] = "evidence"})

Finding(endpoint, vuln_name, details, color) ==
    [endpoint |-> endpoint, vulnerability |-> vuln_name, details |-> details,
     color |-> color]

\* process_finding with "if" where line 187 has "elif": a SQLi finding also
\* falls into the final else.
process_finding_if(f, endpoint, vuln_name, details) ==
    LET g == IF Contains(NameSQLi, vuln_name)
             THEN [f EXCEPT !.critical =
                       Append(@, Finding(endpoint, vuln_name, details, "RED"))]
             ELSE f
    IN  IF Contains(NameBOLA, vuln_name)
        THEN [g EXCEPT !.high = Append(@, Finding(endpoint, vuln_name, details, "YELLOW"))]
        ELSE [g EXCEPT !.medium = Append(@, Finding(endpoint, vuln_name, details, "BLUE"))]

\* process_finding with the tests of lines 180 and 187 in the other order.
process_finding_swapped(f, endpoint, vuln_name, details) ==
    IF Contains(NameBOLA, vuln_name)
    THEN [f EXCEPT !.high = Append(@, Finding(endpoint, vuln_name, details, "YELLOW"))]
    ELSE IF Contains(NameSQLi, vuln_name)
    THEN [f EXCEPT !.critical = Append(@, Finding(endpoint, vuln_name, details, "RED"))]
    ELSE [f EXCEPT !.medium = Append(@, Finding(endpoint, vuln_name, details, "BLUE"))]

\* process_finding with the final else filing under "low".
process_finding_low(f, endpoint, vuln_name, details) ==
    IF Contains(NameSQLi, vuln_name)
    THEN [f EXCEPT !.critical = Append(@, Finding(endpoint, vuln_name, details, "RED"))]
    ELSE IF Contains(NameBOLA, vuln_name)
    THEN [f EXCEPT !.high = Append(@, Finding(endpoint, vuln_name, details, "YELLOW"))]
    ELSE [f EXCEPT !.low = Append(@, Finding(endpoint, vuln_name, details, "BLUE"))]

\* lines 179-200
process_finding(f, endpoint, vuln_name, details) ==
    IF Contains(NameSQLi, vuln_name)
    THEN [f EXCEPT !.critical = Append(@, Finding(endpoint, vuln_name, details, "RED"))]
    ELSE IF Contains(NameBOLA, vuln_name)
    THEN [f EXCEPT !.high = Append(@, Finding(endpoint, vuln_name, details, "YELLOW"))]
    ELSE [f EXCEPT !.medium = Append(@, Finding(endpoint, vuln_name, details, "BLUE"))]

\* line 172
advance(c) == c + 1

\* Outcomes of print_progress: no call yet, a percentage written to stdout
\* (in hundredths of a percent, as "{progress:.2f}" shows it), or the
\* exception raised.
NotShown == [kind |-> "none", percent |-> 0]
Shown(p) == [kind |-> "shown", percent |-> p]
ZeroDivisionError == [kind |-> "ZeroDivisionError", percent |-> 0]
StdoutError == [kind |-> "OSError", percent |-> 0]

\* lines 65-66: (completed_tests / total_tests) * 100, to two decimals
print_progress(completed, total) ==
    IF total = 0
    THEN ZeroDivisionError
    ELSE Shown((2 * 10000 * completed + total) \div (2 * total))

\* ----------------------------------------------------------------- Init

\* lines 39-58 and 210: the object after construction, for a target file of
\* M distinct hosts (hosts are numbered 1..M).
Init ==
    /\ targets \in {[i \in 1..m |-> i] : m \in 0..MaxTargets}
    /\ total_tests = 0
    /\ completed_tests = 0
    /\ findings = EmptyFindings
    /\ pc = "start"
    /\ idx = 0
    /\ endpoints = {}
    /\ cur = NoEndpoint
    /\ results = <<>>
    /\ caller = "run"
    /\ report_state = "absent"
    /\ report_file = EmptyFindings
    /\ status = [t \in 1..Len(targets) |-> "Pending"]
    /\ advanced = [t \in 1..Len(targets) |-> 0]
    /\ interrupts = 0
    /\ doneAtIntr = {}
    /\ pfCalls = 0
    /\ reportCalls = 0
    /\ progress = NotShown
    /\ probes = <<>>
    /\ workers = <<>>

object == <<targets, total_tests, completed_tests, findings>>
locals == <<idx, endpoints, cur, results>>
reportVars == <<caller, report_state, report_file, reportCalls>>
history == <<status, advanced, interrupts, doneAtIntr, pfCalls>>
unit == <<probes, workers>>

\* ---------------------------------------------------------------- run()

\* run() without line 161: total_tests keeps the 0 of the constructor.
RunSetTotal_unset ==
    /\ pc = "start"
    /\ pc' = "with_enter"
    /\ UNCHANGED <<unit, progress, object, locals, reportVars, history>>

\* run() with line 161 counting one unit per target.
RunSetTotal_exact ==
    /\ pc = "start"
    /\ total_tests' = Len(targets)
    /\ pc' = "with_enter"
    /\ UNCHANGED <<unit, progress, targets, completed_tests, findings, locals,
                   reportVars, history>>

\* run() with line 161 counting at least one target.
RunSetTotal_atLeastOne ==
    /\ pc = "start"
    /\ total_tests' = (IF Len(targets) = 0 THEN 1 ELSE Len(targets)) * TestsPerTarget
    /\ pc' = "with_enter"
    /\ UNCHANGED <<unit, progress, targets, completed_tests, findings, locals,
                   reportVars, history>>

\* lines 212 and 161
RunSetTotal ==
    /\ pc = "start"
    /\ total_tests' = Len(targets) * TestsPerTarget
    /\ pc' = "with_enter"
    /\ UNCHANGED <<unit, progress, targets, completed_tests, findings, locals,
                   reportVars, history>>

\* line 163: the executor is created; nothing is ever submitted to it
WithEnter ==
    /\ pc = "with_enter"
    /\ pc' = "for_next"
    /\ UNCHANGED <<unit, progress, object, locals, reportVars, history>>

\* lines 164-165: the next target is bound and the try block entered, or the
\* list is exhausted and the with block left
ForNext ==
    /\ pc = "for_next"
    /\ IF idx < Len(targets)
       THEN /\ idx' = idx + 1
            /\ status' = [status EXCEPT ![idx + 1] = "Discovering"]
            /\ pc' = "discover"
       ELSE /\ pc' = "with_exit"
            /\ UNCHANGED <<idx, status>>
    /\ UNCHANGED <<unit, progress, object, endpoints, cur, results, reportVars,
                   advanced,
                   interrupts, doneAtIntr, pfCalls>>

\* line 166
DiscoverEndpoints ==
    /\ pc = "discover"
    /\ \E live \in SUBSET LivePaths, s2 \in StubResults, s3 \in StubResults,
          s4 \in StubResults :
          endpoints' = discover_endpoints(
              <<Return(check_common_paths(targets[idx], live)), s2, s3, s4>>)
    /\ status' = [status EXCEPT ![idx] = "Scanning"]
    /\ pc' = "for_endpoint"
    /\ UNCHANGED <<unit, progress, object, idx, cur, results, reportVars,
                   advanced, interrupts,
                   doneAtIntr, pfCalls>>

\* The endpoint loop with the counter advanced in it, once per endpoint.
ForEndpoint_counting ==
    /\ pc = "for_endpoint"
    /\ IF endpoints # {}
       THEN /\ \E e \in endpoints :
                 /\ cur' = e
                 /\ endpoints' = endpoints \ {e}
            /\ completed_tests' = advance(completed_tests)
            /\ pc' = "scan"
            /\ UNCHANGED status
       ELSE /\ pc' = "advance"
            /\ status' = [status EXCEPT ![idx] = "Recorded"]
            /\ cur' = NoEndpoint
            /\ UNCHANGED <<endpoints, completed_tests>>
    /\ UNCHANGED <<unit, progress, targets, total_tests, findings, idx,
                   results, reportVars,
                   advanced, interrupts, doneAtIntr, pfCalls>>

\* line 167: the set is iterated in an order the implementation chooses.
\* The loop variable is not read after the loop; it is cleared there.
ForEndpoint ==
    /\ pc = "for_endpoint"
    /\ IF endpoints # {}
       THEN /\ \E e \in endpoints :
                 /\ cur' = e
                 /\ endpoints' = endpoints \ {e}
            /\ pc' = "scan"
            /\ UNCHANGED status
       ELSE /\ pc' = "advance"
            /\ status' = [status EXCEPT ![idx] = "Recorded"]
            /\ cur' = NoEndpoint
            /\ UNCHANGED endpoints
    /\ UNCHANGED <<unit, progress, object, idx, results, reportVars, advanced,
                   interrupts,
                   doneAtIntr, pfCalls>>

\* line 168
ScanOwaspApi ==
    /\ pc = "scan"
    /\ \E outcome \in [1..Len(tests) -> TestResults] :
          /\ pfCalls + Positives(outcome) <= MaxPositives
          /\ results' = scan_owasp_api(outcome)
    /\ pc' = "for_result"
    /\ UNCHANGED <<unit, progress, object, idx, endpoints, cur, reportVars,
                   history>>

\* lines 169-170
ForResult ==
    /\ pc = "for_result"
    /\ IF results # <<>>
       THEN /\ findings' = process_finding(findings, cur, Head(results)[1],
                                           Head(results)[2])
            /\ pfCalls' = pfCalls + 1
            /\ results' = Tail(results)
            /\ pc' = "for_result"
       ELSE /\ pc' = "for_endpoint"
            /\ UNCHANGED <<findings, pfCalls, results>>
    /\ UNCHANGED <<unit, progress, targets, total_tests, completed_tests, idx,
                   endpoints, cur,
                   reportVars, status, advanced, interrupts, doneAtIntr>>

\* line 172
Advance ==
    /\ pc = "advance"
    /\ completed_tests' = advance(completed_tests)
    /\ advanced' = [advanced EXCEPT ![idx] = @ + 1]
    /\ pc' = "progress"
    /\ UNCHANGED <<unit, progress, targets, total_tests, findings, locals,
                   reportVars, status,
                   interrupts, doneAtIntr, pfCalls>>

\* lines 173 and 64-70: the division raises when total_tests is 0, and the
\* write to stdout may fail; either error is caught at line 174
PrintProgress ==
    /\ pc = "progress"
    /\ LET shown == print_progress(completed_tests, total_tests)
       IN  \/ /\ shown.kind = "shown"
              /\ progress' = shown
              /\ status' = [status EXCEPT ![idx] = "Completed"]
              /\ pc' = "for_next"
           \/ /\ progress' = IF shown.kind = "shown" THEN StdoutError ELSE shown
              /\ status' = [status EXCEPT ![idx] = "Aborted"]
              /\ pc' = "except"
    /\ UNCHANGED <<unit, object, locals, reportVars, advanced, interrupts,
                   doneAtIntr, pfCalls>>

\* The handler with "break" where line 175 has "continue".
ExceptContinue_break ==
    /\ pc = "except"
    /\ pc' = "with_exit"
    /\ UNCHANGED <<unit, progress, object, locals, reportVars, history>>

\* lines 174-175
ExceptContinue ==
    /\ pc = "except"
    /\ pc' = "for_next"
    /\ UNCHANGED <<unit, progress, object, locals, reportVars, history>>

\* line 163, leaving the with block: shutdown of an executor with no work
WithExit ==
    /\ pc = "with_exit"
    /\ caller' = "run"
    /\ pc' = "gen_open"
    /\ UNCHANGED <<unit, progress, object, locals, report_state, report_file,
                   reportCalls, history>>

\* ------------------------------------------------------ generate_report()

\* lines 153-155: the call, and open(report_path, 'w') truncating the file
GenOpen ==
    /\ pc = "gen_open"
    /\ reportCalls' = reportCalls + 1
    /\ report_state' = "partial"
    /\ pc' = "gen_dump"
    /\ UNCHANGED <<unit, progress, object, locals, caller, report_file,
                   history>>

\* line 156 and the close of the file
GenDump ==
    /\ pc = "gen_dump"
    /\ report_file' = findings
    /\ report_state' = "complete"
    /\ pc' = "gen_print"
    /\ UNCHANGED <<unit, progress, object, locals, caller, reportCalls,
                   history>>

\* line 158, then the return to the caller and the end of the process
GenPrint ==
    /\ pc = "gen_print"
    /\ pc' = "exit"
    /\ UNCHANGED <<unit, progress, object, locals, reportVars, history>>

\* ------------------------------------------------------------- __main__

\* The handler without line 215: it prints and the process ends.
MainExcept_noReport ==
    /\ pc = "main_except"
    /\ pc' = "exit"
    /\ UNCHANGED <<unit, progress, object, locals, reportVars, history>>

\* lines 213-215: the handler prints and calls generate_report
MainExcept ==
    /\ pc = "main_except"
    /\ caller' = "main"
    /\ pc' = "gen_open"
    /\ UNCHANGED <<unit, progress, object, locals, report_state, report_file,
                   reportCalls, history>>

\* -------------------------------------------------------------- interrupt

InTry == {"discover", "for_endpoint", "scan", "for_result", "advance", "progress"}
InRun == {"start", "with_enter", "for_next", "except", "with_exit"}
InReport == {"gen_open", "gen_dump", "gen_print"}

Counted == {t \in 1..Len(targets) : advanced[t] > 0}

Deliver ==
    /\ interrupts < MaxInterrupts
    /\ interrupts' = interrupts + 1
    /\ doneAtIntr' = IF interrupts = 0 THEN Counted ELSE doneAtIntr

\* A KeyboardInterrupt inside the try block of lines 165-173 and outside the
\* inner handlers: the bare except of line 174 catches it.  The loop
\* variables of the abandoned iteration are assigned anew before they are
\* read again; they are cleared here.
InterruptInTry ==
    /\ pc \in InTry
    /\ Deliver
    /\ status' = [status EXCEPT ![idx] = "Aborted"]
    /\ endpoints' = {}
    /\ cur' = NoEndpoint
    /\ results' = <<>>
    /\ pc' = "except"
    /\ UNCHANGED <<unit, progress, object, idx, reportVars, advanced, pfCalls>>

\* A KeyboardInterrupt inside session.get (bare except of line 101) or inside
\* a test function (bare except of line 132): the probe counts as failed and
\* the loop goes on.
InterruptInProbe ==
    /\ pc \in {"discover", "scan"}
    /\ Deliver
    /\ UNCHANGED <<unit, progress, object, pc, locals, reportVars, status,
                   advanced, pfCalls>>

\* A KeyboardInterrupt in run() outside the try block, or in the
\* generate_report that run() called: it reaches line 213.
InterruptInRun ==
    /\ \/ pc \in InRun
       \/ pc \in InReport /\ caller = "run"
    /\ Deliver
    /\ pc' = "main_except"
    /\ UNCHANGED <<unit, progress, object, locals, reportVars, status,
                   advanced, pfCalls>>

\* A KeyboardInterrupt in the handler of lines 213-215: nothing catches it.
InterruptInMain ==
    /\ \/ pc = "main_except"
       \/ pc \in InReport /\ caller = "main"
    /\ Deliver
    /\ pc' = "crashed"
    /\ UNCHANGED <<unit, progress, object, locals, reportVars, status,
                   advanced, pfCalls>>

Step ==
    \/ RunSetTotal
    \/ WithEnter
    \/ ForNext
    \/ DiscoverEndpoints
    \/ ForEndpoint
    \/ ScanOwaspApi
    \/ ForResult
    \/ Advance
    \/ PrintProgress
    \/ ExceptContinue
    \/ WithExit
    \/ GenOpen
    \/ GenDump
    \/ GenPrint
    \/ MainExcept

Interrupt ==
    \/ InterruptInTry
    \/ InterruptInProbe
    \/ InterruptInRun
    \/ InterruptInMain

Next == Step \/ Interrupt

Spec == Init /\ [][Next]_vars

\* The interpreter always runs the next statement of the main thread and the
\* probes return (each network call carries a timeout); interrupts may or
\* may not come.
FairSpec == Spec /\ WF_vars(Step)

\* ------------------------------------------- process_finding on its own

\* Names process_finding is called with: the registered ones, and names that
\* hold both, one or neither of the substrings it looks for.
NameSQLiBOLA == NameSQLi \o <<" ">> \o NameBOLA
NameBOLASQLi == NameBOLA \o <<"/">> \o NameSQLi
NameLower == <<"s", "q", "l", "i">>
NameBOL == <<"B", "O", "L">>
RecordNames == Range(tests) \cup {NameSQLiBOLA, NameBOLASQLi, NameLower, NameBOL}
RecordEndpoints == {urljoin(1, "/api"), urljoin(2, "/admin")}

\* lines 39-58: a constructed object on which process_finding is called
InitRecord ==
    /\ targets = <<>>
    /\ total_tests = 0
    /\ completed_tests = 0
    /\ findings = EmptyFindings
    /\ pc = "record"
    /\ idx = 0
    /\ endpoints = {}
    /\ cur = NoEndpoint
    /\ results = <<>>
    /\ caller = "run"
    /\ report_state = "absent"
    /\ report_file = EmptyFindings
    /\ status = <<>>
    /\ advanced = <<>>
    /\ interrupts = 0
    /\ doneAtIntr = {}
    /\ pfCalls = 0
    /\ reportCalls = 0
    /\ progress = NotShown
    /\ probes = <<>>
    /\ workers = <<>>

\* the arguments of a call process_finding(endpoint, vuln_name, details)
RecordCall ==
    /\ pc = "record"
    /\ pfCalls < MaxCalls
    /\ \E e \in RecordEndpoints, n \in RecordNames :
          /\ cur' = e
          /\ results' = <<<<n, "evidence">>>>
    /\ pc' = "recording"
    /\ UNCHANGED <<unit, progress, object, idx, endpoints, reportVars, history>>

\* lines 179-200: the call itself
RecordFinding ==
    /\ pc = "recording"
    /\ findings' = process_finding(findings, cur, Head(results)[1], Head(results)[2])
    /\ pfCalls' = pfCalls + 1
    /\ results' = Tail(results)
    /\ pc' = "record"
    /\ UNCHANGED <<unit, progress, targets, total_tests, completed_tests, idx,
                   endpoints, cur,
                   reportVars, status, advanced, interrupts, doneAtIntr>>

NextRecord == RecordCall \/ RecordFinding

SpecRecord == InitRecord /\ [][NextRecord]_vars

\* ---------------------------------------- discover_endpoints on its own

\* lines 39-58: the fields of a constructed object and of a thread that has
\* not entered run(), but for those a call on one function sets up
Constructed ==
    /\ findings = EmptyFindings
    /\ idx = 0
    /\ endpoints = {}
    /\ cur = NoEndpoint
    /\ results = <<>>
    /\ caller = "run"
    /\ report_state = "absent"
    /\ report_file = EmptyFindings
    /\ interrupts = 0
    /\ doneAtIntr = {}
    /\ pfCalls = 0
    /\ reportCalls = 0
    /\ progress = NotShown

\* What a pluggable strategy may return: URLs that check_common_paths finds
\* too, URLs of its own, the same URL twice, an empty list.
UrlApi == urljoin(1, "/api")
UrlSwagger == urljoin(1, "/swagger.json")
StrategyResults ==
    {ReturnsNone, Raises, Return(<<>>), Return(<<UrlApi>>),
     Return(<<UrlSwagger, UrlApi>>), Return(<<UrlSwagger, UrlSwagger>>)}

\* a call discover_endpoints(target) on a constructed object
InitDiscover ==
    /\ Constructed
    /\ targets = <<1>>
    /\ total_tests = 0
    /\ completed_tests = 0
    /\ pc = "call_discover"
    /\ status = <<"Pending">>
    /\ advanced = <<0>>
    /\ workers = <<>>
    /\ probes \in {<<Return(check_common_paths(1, live)), s2, s3, s4>> :
                      live \in SUBSET LivePaths, s2 \in StrategyResults,
                      s3 \in StrategyResults, s4 \in StrategyResults}

\* lines 72-89
DiscoverCall ==
    /\ pc = "call_discover"
    /\ endpoints' = discover_endpoints(probes)
    /\ pc' = "discovered"
    /\ UNCHANGED <<unit, progress, object, idx, cur, results, reportVars, history>>

NextDiscover == DiscoverCall

SpecDiscover == InitDiscover /\ [][NextDiscover]_vars

\* -------------------------------------------- scan_owasp_api on its own

\* a call scan_owasp_api(endpoint) on a constructed object
InitScan ==
    /\ Constructed
    /\ targets = <<1>>
    /\ total_tests = 0
    /\ completed_tests = 0
    /\ pc = "call_scan"
    /\ status = <<"Pending">>
    /\ advanced = <<0>>
    /\ workers = <<>>
    /\ probes \in [1..Len(tests) -> TestResults]

\* lines 118-135
ScanCall ==
    /\ pc = "call_scan"
    /\ results' = scan_owasp_api(probes)
    /\ pc' = "scanned"
    /\ UNCHANGED <<unit, progress, object, idx, endpoints, cur, reportVars, history>>

NextScan == ScanCall

SpecScan == InitScan /\ [][NextScan]_vars

\* ------------------------------- process_finding called from W threads

SeverityOf(vuln_name) ==
    IF Contains(NameSQLi, vuln_name) THEN "critical"
    ELSE IF Contains(NameBOLA, vuln_name) THEN "high"
    ELSE "medium"

WorkerNames == {NameSQLi, NameBFLA}

\* W threads on one constructed object; thread w is to record n findings of
\* one name for the endpoint urljoin(w, "/api")
InitWorkers ==
    /\ Constructed
    /\ targets = <<>>
    /\ total_tests = 0
    /\ completed_tests = 0
    /\ pc = "threads"
    /\ status = <<>>
    /\ advanced = <<>>
    /\ probes = <<>>
    /\ \E W \in 1..MaxWorkers, n \in 1..MaxPerWorker :
          workers \in [1..W -> [pc : {"idle"}, todo : {n}, made : {0},
                                name : WorkerNames, seen : {0}]]

\* lines 180-187 in thread w: the tests on vuln_name are evaluated and the
\* list self.findings[severity] is loaded; seen is its length at that time
WorkerLoad(w) ==
    /\ workers[w].pc = "idle"
    /\ workers[w].made < workers[w].todo
    /\ workers' = [workers EXCEPT ![w].pc = "loaded",
                                  ![w].seen = Len(findings[SeverityOf(workers[w].name)])]
    /\ UNCHANGED <<progress, probes, object, pc, locals, reportVars, history>>

\* A thread that replaces the bucket by a copy of the list it loaded with its
\* record added, instead of appending to the list in place.
WorkerAppend_copy(w) ==
    /\ workers[w].pc = "loaded"
    /\ LET b == SeverityOf(workers[w].name)
           added == process_finding(findings, urljoin(w, "/api"), workers[w].name,
                                    "evidence")
       IN  findings' = [findings EXCEPT ![b] =
                           Append(SubSeq(@, 1, workers[w].seen), Last(added[b]))]
    /\ pfCalls' = pfCalls + 1
    /\ workers' = [workers EXCEPT ![w].pc = "idle", ![w].made = @ + 1]
    /\ UNCHANGED <<progress, probes, targets, total_tests, completed_tests, pc,
                   locals, reportVars, status, advanced, interrupts, doneAtIntr>>

\* lines 181-186, 188-193 or 195-200 in thread w: list.append, which the
\* interpreter runs as one step
WorkerAppend(w) ==
    /\ workers[w].pc = "loaded"
    /\ findings' = process_finding(findings, urljoin(w, "/api"), workers[w].name,
                                   "evidence")
    /\ pfCalls' = pfCalls + 1
    /\ workers' = [workers EXCEPT ![w].pc = "idle", ![w].made = @ + 1]
    /\ UNCHANGED <<progress, probes, targets, total_tests, completed_tests, pc,
                   locals, reportVars, status, advanced, interrupts, doneAtIntr>>

NextWorkers == \E w \in DOMAIN workers : WorkerLoad(w) \/ WorkerAppend(w)

SpecWorkers == InitWorkers /\ [][NextWorkers]_vars

\* -------------------------------------------- print_progress on its own

\* a call print_progress() on an object with M targets, before run() has
\* set total_tests or after line 161 with some targets counted
InitProgress ==
    /\ Constructed
    /\ \E M \in 0..MaxShownTargets :
          /\ targets = [i \in 1..M |-> i]
          /\ \/ total_tests = 0 /\ completed_tests = 0
             \/ total_tests = M * TestsPerTarget /\ completed_tests \in 0..M
    /\ pc = "call_progress"
    /\ status = [t \in 1..Len(targets) |-> "Pending"]
    /\ advanced = [t \in 1..Len(targets) |-> 0]
    /\ probes = <<>>
    /\ workers = <<>>

\* lines 64-70
ProgressCall ==
    /\ pc = "call_progress"
    /\ LET shown == print_progress(completed_tests, total_tests)
       IN  progress' \in IF shown.kind = "shown" THEN {shown, StdoutError} ELSE {shown}
    /\ pc' = IF progress'.kind = "shown" THEN "progress_returned" ELSE "progress_raised"
    /\ UNCHANGED <<unit, object, locals, reportVars, history>>

NextProgress == ProgressCall

SpecProgress == InitProgress /\ [][NextProgress]_vars

\* ================================================================ claims

AllRecords(f) == UNION {Range(f[b]) : b \in Buckets}
Terminal == {"Completed", "Aborted"}

\* C1: once a KeyboardInterrupt has been received during run(), no target
\* that is still Pending ever starts discovery or scanning.
C1_NoDispatchAfterInterrupt ==
    [][interrupts > 0 =>
         \A t \in DOMAIN status : status[t] = "Pending" => status'[t] = "Pending"]_vars

\* C2: when the process has ended after one interrupt, every finding of the
\* emitted report comes from a target that had completed when the interrupt
\* arrived.
C2_ReportOnlyCompletedTargets ==
    (pc = "exit" /\ interrupts = 1) =>
        \A r \in AllRecords(report_file) : r.endpoint.base \in doneAtIntr

\* C3: when the process has ended, by normal completion or after an
\* interrupt, generate_report has run exactly once.
C3_ReportExactlyOnce == pc = "exit" => reportCalls = 1

\* C4: after a single interrupt the process ends with the report written in
\* full and holding every finding of the aggregator.
ReportPersisted ==
    pc = "exit" /\ report_state = "complete" /\ report_file = findings
C4_PartialReportPersisted ==
    (interrupts = 1) ~> (interrupts > 1 \/ ReportPersisted)
C4_Witness ==
    /\ interrupts = 1
    /\ ReportPersisted
    /\ caller = "main"
    /\ TotalFindings(report_file) > 0

\* C5: every call of process_finding appends exactly the record of the call
\* to exactly one bucket and leaves the other four as they were, findings
\* change in no other way, and the number of stored findings is the number
\* of calls made.
C5_OneRecordOneBucket ==
    /\ [](TotalFindings(findings) = pfCalls)
    /\ [][/\ findings' # findings => pfCalls' = pfCalls + 1
          /\ pfCalls' # pfCalls =>
                \E b \in Buckets :
                   /\ Len(findings'[b]) = Len(findings[b]) + 1
                   /\ SubSeq(findings'[b], 1, Len(findings[b])) = findings[b]
                   /\ Last(findings'[b]).endpoint = cur
                   /\ Last(findings'[b]).vulnerability = Head(results)[1]
                   /\ Last(findings'[b]).details = Head(results)[2]
                   /\ \A c \in Buckets \ {b} : findings'[c] = findings[c]]_vars
C5_Witness ==
    /\ pfCalls = 3
    /\ Len(findings.critical) = 1
    /\ Len(findings.high) = 1
    /\ Len(findings.medium) = 1

\* C6: the bucket of a finding is decided by its test name alone, first
\* match first: a name holding "SQLi" is critical, also when it holds "BOLA";
\* otherwise a name holding "BOLA" is high; any other name, "BFLA" and
\* "Mass Assignment" among them, is medium.
C6_SeverityByName ==
    \A b \in Buckets : \A r \in Range(findings[b]) :
        /\ Contains(NameSQLi, r.vulnerability) => b = "critical"
        /\ (Contains(NameBOLA, r.vulnerability)
              /\ ~Contains(NameSQLi, r.vulnerability)) => b = "high"
        /\ (~Contains(NameBOLA, r.vulnerability)
              /\ ~Contains(NameSQLi, r.vulnerability)) => b = "medium"
        /\ r.vulnerability \in {NameSQLiBOLA, NameBOLASQLi, NameSQLi} => b = "critical"
        /\ r.vulnerability = NameBOLA => b = "high"
        /\ r.vulnerability \in {NameBFLA, NameMassAssignment, NameLower, NameBOL}
              => b = "medium"
C6_Witness ==
    /\ \E r \in Range(findings.critical) : r.vulnerability = NameBOLASQLi
    /\ \E r \in Range(findings.medium) : r.vulnerability = NameBFLA
    /\ \E r \in Range(findings.medium) : r.vulnerability = NameMassAssignment

\* C7: the low and info buckets are empty in every state of a run and in
\* every report written.
C7_LowInfoEmpty ==
    /\ findings.low = <<>> /\ findings.info = <<>>
    /\ report_file.low = <<>> /\ report_file.info = <<>>
C7_Witness ==
    /\ pc = "exit"
    /\ report_state = "complete"
    /\ Len(report_file.medium) > 0
    /\ interrupts > 0
    /\ \E t \in DOMAIN status : status[t] = "Aborted"

\* C8: completed_tests never exceeds total_tests and never decreases.
C8_ProgressBounded ==
    /\ [](completed_tests <= total_tests)
    /\ [][completed_tests' >= completed_tests]_vars
C8_Witness ==
    /\ completed_tests = Len(targets)
    /\ completed_tests > 1
    /\ interrupts > 0
    /\ \E t \in DOMAIN status : status[t] = "Aborted"

\* C9: line 172 runs at most once for a target, only after its discovery and
\* all its endpoint scans are over, and once for every target that reaches
\* Completed; completed_tests is the number of targets it has run for,
\* whatever was discovered or found; with all M targets Completed it is M.
C9_AdvancedOncePerTarget ==
    /\ \A t \in DOMAIN status :
          /\ advanced[t] <= 1
          /\ status[t] = "Completed" => advanced[t] = 1
          /\ advanced[t] = 1 => status[t] \in {"Recorded", "Completed", "Aborted"}
    /\ completed_tests = Cardinality(Counted)
    /\ (\A t \in DOMAIN status : status[t] = "Completed")
          => completed_tests = Len(targets)
C9_Witness ==
    /\ Len(targets) > 1
    /\ \A t \in DOMAIN status : status[t] = "Completed"
    /\ completed_tests = Len(targets)
    /\ pfCalls > 0
    /\ pc = "exit"

\* C10: a target that ended Aborted has had completed_tests advanced once on
\* its behalf.
C10_AbortedIsCounted ==
    \A t \in DOMAIN status : status[t] = "Aborted" => advanced[t] = 1

\* C11: discover_endpoints returns the union of what the strategies that
\* returned a non-empty list returned: a strategy that raises or returns
\* nothing takes nothing away and stops no later strategy, and when every
\* strategy fails or returns nothing the result is the empty set.
Returned(outs) == {i \in 1..Len(outs) : outs[i].kind = "return" /\ outs[i].value # <<>>}
C11_DiscoveryIsUnion ==
    pc = "discovered" =>
        /\ endpoints = UNION {Range(probes[i].value) : i \in Returned(probes)}
        /\ \A i \in Returned(probes) : Range(probes[i].value) \subseteq endpoints
        /\ Returned(probes) = {} => endpoints = {}
C11_Witness ==
    /\ pc = "discovered"
    /\ probes[1] = Return(<<UrlApi, urljoin(1, "/v1")>>)
    /\ probes[2] = Raises
    /\ probes[3] = ReturnsNone
    /\ probes[4] = Return(<<UrlSwagger, UrlApi>>)
    /\ endpoints = {UrlApi, urljoin(1, "/v1"), UrlSwagger}

\* C12: scan_owasp_api returns one (name, result) pair for each test that
\* returned a positive result, and for no other, in the registration order
\* BOLA, BFLA, Mass Assignment, SQLi; a test that raises or returns nothing
\* adds nothing and stops no later test.
Registered(name) == CHOOSE i \in 1..Len(tests) : tests[i] = name
C12_ScanIsPositivesInOrder ==
    pc = "scanned" =>
        LET positive == {i \in 1..Len(tests) : probes[i] = "evidence"}
        IN  /\ tests = <<NameBOLA, NameBFLA, NameMassAssignment, NameSQLi>>
            /\ Len(results) = Cardinality(positive)
            /\ {results[k][1] : k \in 1..Len(results)} = {tests[i] : i \in positive}
            /\ \A k \in 1..Len(results) : results[k][2] = "evidence"
            /\ \A j, k \in 1..Len(results) :
                  j < k => Registered(results[j][1]) < Registered(results[k][1])
C12_Witness ==
    /\ pc = "scanned"
    /\ probes = <<"evidence", "raise", "None", "evidence">>
    /\ results = <<<<NameBOLA, "evidence">>, <<NameSQLi, "evidence">>>>

\* C13: with a pool of at least two workers and at least two targets, while
\* one target's processing is inside a probe call that has not returned, a
\* target that is still Pending can be started.
StartPending ==
    /\ Step
    /\ \E t \in DOMAIN status : status[t] = "Pending" /\ status'[t] # "Pending"
C13_BlockedWorkerBlocksNoOther ==
    (/\ threads >= 2
     /\ Len(targets) >= 2
     /\ pc \in {"discover", "scan"}
     /\ \E t \in DOMAIN status : status[t] = "Pending")
        => ENABLED StartPending

\* C14: when W threads each record n findings through process_finding, under
\* every interleaving each thread has as many records stored as it has made
\* calls, the findings stored are as many as the calls made, and W*n once
\* every thread has made its n calls.
WorkersDone == \A w \in DOMAIN workers : workers[w].made = workers[w].todo
RecordsOf(w) == {<<b, i>> \in Buckets \X (1..MaxWorkers * MaxPerWorker) :
                    i <= Len(findings[b]) /\ findings[b][i].endpoint.base = w}
C14_NoLostUpdate ==
    pc = "threads" =>
        /\ \A w \in DOMAIN workers : Cardinality(RecordsOf(w)) = workers[w].made
        /\ TotalFindings(findings) = pfCalls
        /\ WorkersDone =>
              TotalFindings(findings) = Len(workers) * workers[1].todo
C14_Witness ==
    /\ pc = "threads"
    /\ WorkersDone
    /\ Len(workers) = 2
    /\ Len(findings.critical) = 4
    /\ findings.critical[1].endpoint.base = 1
    /\ findings.critical[2].endpoint.base = 2
    /\ findings.critical[3].endpoint.base = 2
    /\ findings.critical[4].endpoint.base = 1

\* C15: a call of print_progress with total_tests = 0 writes a percentage and
\* raises nothing.
C15_ProgressDefinedAtZero ==
    (pc \in {"progress_returned", "progress_raised"} /\ total_tests = 0)
        => (pc = "progress_returned" /\ progress.kind = "shown")

\* C16: a report written in full has exactly the keys critical, high,
\* medium, low and info, and every record under them has exactly the fields
\* endpoint, vulnerability and details.
C16_ReportSchema ==
    report_state = "complete" =>
        /\ DOMAIN report_file = Buckets
        /\ \A r \in AllRecords(report_file) :
              DOMAIN r = {"endpoint", "vulnerability", "details"}

\* C17: a target that ended Aborted has no finding in any bucket.
FindingsOf(t) == {r \in AllRecords(findings) : r.endpoint.base = t}
C17_AbortedHasNoFindings ==
    \A t \in DOMAIN status : status[t] = "Aborted" => FindingsOf(t) = {}

\* C18: once a target's failure has been caught, control goes back to the
\* for statement, which takes the next target; in a run without interrupt
\* the report is written, and not before every target is Completed or
\* Aborted.
AllTerminal == \A t \in DOMAIN status : status[t] \in Terminal
C18_FailureDoesNotStopRun ==
    /\ [][(pc = "except" /\ interrupts' = interrupts /\ pc' # pc)
             => pc' = "for_next"]_vars
    /\ []((interrupts = 0 /\ reportCalls > 0) => AllTerminal)
    /\ <>(interrupts > 0 \/ (pc = "exit" /\ report_state = "complete" /\ AllTerminal))
C18_Witness ==
    /\ pc = "exit"
    /\ interrupts = 0
    /\ report_state = "complete"
    /\ status = <<"Aborted", "Completed">>

\* C19: in every state of a run 5 * completed_tests <= total_tests, and a
\* percentage print_progress writes is at most 20.00.
C19_ProgressAtMostFifth ==
    /\ 5 * completed_tests <= total_tests
    /\ progress.kind = "shown" => progress.percent <= 2000
C19_Witness ==
    /\ pc = "exit"
    /\ Len(targets) = 2
    /\ \A t \in DOMAIN status : status[t] = "Completed"
    /\ completed_tests = 2
    /\ total_tests = 10
    /\ progress = Shown(2000)

\* C20: with an empty target list total_tests is 0 throughout, print_progress
\* is never called, no finding is recorded, and when run() has returned it
\* has written one report, whose five buckets are empty.
C20_EmptyTargetList ==
    Len(targets) = 0 =>
        /\ total_tests = 0
        /\ progress = NotShown
        /\ pfCalls = 0
        /\ findings = EmptyFindings
        /\ report_state = "complete" => report_file = EmptyFindings
        /\ (pc = "exit" /\ caller = "run") =>
              (reportCalls = 1 /\ report_state = "complete")
C20_Witness ==
    /\ Len(targets) = 0
    /\ pc = "exit"
    /\ caller = "run"
    /\ reportCalls = 1
    /\ report_state = "complete"
    /\ report_file = EmptyFindings

====
